---- MODULE Spec2Model ----
(***************************************************************************)
(* Model of src/main.py: the MBTI "Top 10 countries" Streamlit script.     *)
(* One run of the script is one behaviour: Loader (lines 61-79), schema    *)
(* detection (84-88), normalisation (90-103), type selection (105-107),    *)
(* ranking (108-111) and presentation/export (113-143).                    *)
(*                                                                         *)
(* Strings are sequences of one-character strings, so that str.strip,      *)
(* str.lower, str.upper and the `in` substring test are computed.  Hangul  *)
(* syllables are written by code point ("U+AD6D").  Numbers are exact      *)
(* rationals [n, d]; the inputs are halves and integers, on which the      *)
(* float64 arithmetic of pandas takes the same branches.                   *)
(***************************************************************************)
EXTENDS Integers, Sequences, FiniteSets

VARIABLES
    pc,          \* position of the script
    def_file,    \* countriesMBTI_16types.csv: whether it exists, parses, and its table
    upload,      \* the uploader's value: None or the uploaded bytes
    enc_i,       \* index of the next encoding the fallback loop tries
    tried,       \* encodings the fallback loop has attempted so far, in order
    df,          \* the loaded DataFrame (None before loading / after a failed attempt)
    country_col, \* detect_country_col(df)
    mbti_cols,   \* pick_mbti_cols(df)
    num_df,      \* to_numeric(df, exclude=[country_col])
    row_sums,    \* num_df[mbti_cols].sum(axis=1)
    mean_sum,    \* row_sums.mean(skipna=True)
    value_type,  \* "proportion" | "percent" | "count"
    work_df,     \* the normalised DataFrame
    sel_type,    \* the selectbox value
    ranked,      \* the Top-10 table
    csv,         \* the download button's payload
    error        \* "none" or the terminal error of the run

vars == <<pc, def_file, upload, enc_i, tried, df, country_col, mbti_cols, num_df,
          row_sums, mean_sum, value_type, work_df, sel_type, ranked, csv, error>>

\* Python's None and a present value; a DataFrame is [columns, rows]
None == <<>>
Some(x) == <<x>>
Get(o) == o[1]

----------------------------------------------------------------------------
(* Strings *)

Lowers == <<"a","b","c","d","e","f","g","h","i","j","k","l","m",
            "n","o","p","q","r","s","t","u","v","w","x","y","z">>
Uppers == <<"A","B","C","D","E","F","G","H","I","J","K","L","M",
            "N","O","P","Q","R","S","T","U","V","W","X","Y","Z">>
Whitespace == {" ", "\t"}

\* str.lower / str.upper on one character
LowerChar(ch) ==
    IF \E i \in 1..Len(Uppers) : Uppers[i] = ch
    THEN Lowers[CHOOSE i \in 1..Len(Uppers) : Uppers[i] = ch]
    ELSE ch

UpperChar(ch) ==
    IF \E i \in 1..Len(Lowers) : Lowers[i] = ch
    THEN Uppers[CHOOSE i \in 1..Len(Lowers) : Lowers[i] = ch]
    ELSE ch

Lower(s) == [i \in 1..Len(s) |-> LowerChar(s[i])]
Upper(s) == [i \in 1..Len(s) |-> UpperChar(s[i])]

\* str.strip(): drop leading and trailing whitespace
Strip(s) ==
    LET keep == {i \in 1..Len(s) : s[i] \notin Whitespace}
    IN  IF keep = {} THEN <<>>
        ELSE LET lo == CHOOSE i \in keep : \A j \in keep : i <= j
                 hi == CHOOSE i \in keep : \A j \in keep : j <= i
             IN  SubSeq(s, lo, hi)

\* Python's `sub in s` on strings
Contains(s, sub) ==
    \E i \in 1..(Len(s) - Len(sub) + 1) : SubSeq(s, i, i + Len(sub) - 1) = sub

Range(s) == {s[i] : i \in 1..Len(s)}

----------------------------------------------------------------------------
(* Helpers of main.py *)

MBTI_TYPES == <<
    <<"I","N","T","J">>, <<"I","N","T","P">>, <<"E","N","T","J">>, <<"E","N","T","P">>,
    <<"I","N","F","J">>, <<"I","N","F","P">>, <<"E","N","F","J">>, <<"E","N","F","P">>,
    <<"I","S","T","J">>, <<"I","S","F","J">>, <<"E","S","T","J">>, <<"E","S","F","J">>,
    <<"I","S","T","P">>, <<"I","S","F","P">>, <<"E","S","T","P">>, <<"E","S","F","P">> >>

KO_GUKGA == <<"U+AD6D", "U+AC00">>
KO_NARA == <<"U+B098", "U+B77C">>
KO_JIYEOK == <<"U+C9C0", "U+C5ED">>

POSSIBLE_COUNTRY_COLS ==
    << <<"c","o","u","n","t","r","y">>, <<"n","a","t","i","o","n">>,
       <<"l","o","c","a","t","i","o","n">>, <<"r","e","g","i","o","n">>,
       KO_GUKGA, KO_NARA, KO_JIYEOK >>

\* the condition of line 36 for one column name c
IsCountryLike(c) ==
    LET lc == Lower(Strip(c))
    IN  \/ lc \in Range(POSSIBLE_COUNTRY_COLS)
        \/ Contains(lc, <<"c","o","u","n","t","r","y">>)
        \/ Contains(c, KO_GUKGA)
        \/ Contains(c, KO_NARA)

\* a plausible slip: keep scanning and return the last matching column
detect_country_col_last(columns) ==
    LET hits == {i \in 1..Len(columns) : IsCountryLike(columns[i])}
    IN  IF hits = {} THEN columns[1]
        ELSE columns[CHOOSE i \in hits : \A j \in hits : j <= i]

detect_country_col(columns) ==
    LET hits == {i \in 1..Len(columns) : IsCountryLike(columns[i])}
    IN  IF hits = {} THEN columns[1]
        ELSE columns[CHOOSE i \in hits : \A j \in hits : i <= j]

\* cols_upper = {c.upper(): c for c in df.columns}: a later column overwrites
\* an earlier one with the same upper-cased name
cols_upper_has(columns, t) == \E i \in 1..Len(columns) : Upper(columns[i]) = t

cols_upper_get(columns, t) ==
    LET hits == {i \in 1..Len(columns) : Upper(columns[i]) = t}
    IN  columns[CHOOSE i \in hits : \A j \in hits : j <= i]

RECURSIVE pick_from(_, _)
pick_from(columns, k) ==
    IF k > Len(MBTI_TYPES) THEN <<>>
    ELSE IF cols_upper_has(columns, MBTI_TYPES[k])
         THEN <<cols_upper_get(columns, MBTI_TYPES[k])>> \o pick_from(columns, k + 1)
         ELSE pick_from(columns, k + 1)

pick_mbti_cols(columns) == pick_from(columns, 1)

----------------------------------------------------------------------------
(* Numbers: a cell is a number n/d (d > 0), NaN, or unparseable text *)

Abs(x) == IF x < 0 THEN -x ELSE x

RECURSIVE GCD(_, _)
GCD(a, b) == IF b = 0 THEN a ELSE GCD(b, a % b)

Num(n, d) ==
    LET g == GCD(Abs(n), d)
    IN  [k |-> "num", n |-> n \div g, d |-> d \div g]
NaN == [k |-> "nan", n |-> 0, d |-> 1]
Text == [k |-> "str", n |-> 0, d |-> 1]

IsNum(c) == c.k = "num"
\* pd.isna
IsNA(c) == c.k = "nan"

Add(a, b) == Num(a.n * b.d + b.n * a.d, a.d * b.d)
Sub(a, b) == Num(a.n * b.d - b.n * a.d, a.d * b.d)
\* a / b for b # 0
Div(a, b) ==
    IF b.n > 0 THEN Num(a.n * b.d, a.d * b.n) ELSE Num(-(a.n * b.d), a.d * (-b.n))
AbsNum(a) == Num(Abs(a.n), a.d)
Less(a, b) == a.n * b.d < b.n * a.d

\* float arithmetic with a NaN operand yields NaN; a comparison with NaN is False
SubNA(a, b) == IF IsNum(a) /\ IsNum(b) THEN Sub(a, b) ELSE NaN
AbsNA(a) == IF IsNum(a) THEN AbsNum(a) ELSE NaN
LessNA(a, b) == IsNum(a) /\ IsNum(b) /\ Less(a, b)
\* x / y elementwise, y possibly pd.NA
DivNA(a, b) == IF IsNum(a) /\ IsNum(b) THEN Div(a, b) ELSE NaN

----------------------------------------------------------------------------
(* DataFrame operations *)

ColIdx(frame, name) == CHOOSE i \in 1..Len(frame.columns) : frame.columns[i] = name
HasCol(frame, name) == name \in Range(frame.columns)
NRows(frame) == Len(frame.rows)
Cell(frame, r, name) == frame.rows[r][ColIdx(frame, name)]

\* pd.to_numeric(..., errors="coerce") on one cell
coerce(c) == IF c.k = "str" THEN NaN ELSE c

to_numeric(frame, exclude) ==
    [frame EXCEPT !.rows =
        [r \in 1..Len(frame.rows) |->
            [j \in 1..Len(frame.columns) |->
                IF frame.columns[j] \notin exclude
                THEN coerce(frame.rows[r][j])
                ELSE frame.rows[r][j]]]]

\* DataFrame.sum(axis=1) over the columns cols of one row: skipna=True and
\* min_count=0, so a missing cell adds nothing and an all-missing row sums to 0
RECURSIVE SumCells(_, _, _, _)
SumCells(frame, r, cols, k) ==
    IF k > Len(cols) THEN Num(0, 1)
    ELSE LET c == Cell(frame, r, cols[k])
             rest == SumCells(frame, r, cols, k + 1)
         IN  IF IsNum(c) THEN Add(c, rest) ELSE rest

\* a plausible slip: sum(axis=1, min_count=1), where an all-missing row sums to NaN
RowSums_min_count(frame, cols) ==
    [r \in 1..NRows(frame) |->
        IF \A k \in 1..Len(cols) : ~IsNum(Cell(frame, r, cols[k]))
        THEN NaN ELSE SumCells(frame, r, cols, 1)]

RowSums(frame, cols) == [r \in 1..NRows(frame) |-> SumCells(frame, r, cols, 1)]

\* Series.mean(skipna=True): NaN entries are skipped; the mean of nothing is NaN
RECURSIVE SumSeq(_, _)
SumSeq(s, k) ==
    IF k > Len(s) THEN Num(0, 1)
    ELSE IF IsNum(s[k]) THEN Add(s[k], SumSeq(s, k + 1)) ELSE SumSeq(s, k + 1)

Mean(s) ==
    LET cnt == Cardinality({i \in 1..Len(s) : IsNum(s[i])})
    IN  IF cnt = 0 THEN NaN ELSE Div(SumSeq(s, 1), Num(cnt, 1))

\* sums.replace(0, pd.NA)
replace_zero(x) == IF IsNum(x) /\ x.n = 0 THEN NaN ELSE x

\* infer_to_proportion(df_num, type_cols)[0]: each row of the type columns
\* divided by that row's sum, the other columns untouched
infer_to_proportion(df_num, type_cols) ==
    LET sums == RowSums(df_num, type_cols)
    IN  [df_num EXCEPT !.rows =
            [r \in 1..Len(df_num.rows) |->
                [j \in 1..Len(df_num.columns) |->
                    IF df_num.columns[j] \in Range(type_cols)
                    THEN DivNA(df_num.rows[r][j], replace_zero(sums[r]))
                    ELSE df_num.rows[r][j]]]]

\* work_df[mbti_cols] / 100.0
div_100(frame, cols) ==
    [frame EXCEPT !.rows =
        [r \in 1..Len(frame.rows) |->
            [j \in 1..Len(frame.columns) |->
                IF frame.columns[j] \in Range(cols)
                THEN DivNA(frame.rows[r][j], Num(100, 1))
                ELSE frame.rows[r][j]]]]

----------------------------------------------------------------------------
(* Ranking *)

TopN == 10

COUNTRY_KEY == <<"_","_","c","o","u","n","t","r","y","_","_">>

\* Series.astype(str): every value, NaN included, becomes a string
astype_str(c) == [c EXCEPT !.k = "str"]

\* work_df["__country__"] = df[country_col].astype(str)
with_country(work, frame, ccol) ==
    [columns |-> Append(work.columns, COUNTRY_KEY),
     rows |-> [r \in 1..NRows(work) |->
                  Append(work.rows[r], astype_str(Cell(frame, r, ccol)))]]

\* .dropna() on the (__country__, share) projection: the index labels that remain
dropna(work, t) ==
    {r \in 1..NRows(work) :
        ~IsNA(Cell(work, r, t)) /\ ~IsNA(Cell(work, r, COUNTRY_KEY))}

\* sort_values("share", ascending=False) with the default kind="quicksort",
\* which is not a stable sort: every ordering of the index labels in which
\* the shares do not increase is a possible result.
RECURSIVE DescendingOrders(_, _, _)
DescendingOrders(work, t, S) ==
    IF S = {} THEN {<<>>}
    ELSE LET top == {i \in S : \A j \in S : ~Less(Cell(work, i, t), Cell(work, j, t))}
         IN  UNION {{<<i>> \o rest : rest \in DescendingOrders(work, t, S \ {i})} : i \in top}

\* a plausible slip: ascending=False is forgotten
sort_orders_ascending(work, t, S) ==
    {[i \in 1..Len(o) |-> o[Len(o) + 1 - i]] : o \in DescendingOrders(work, t, S)}

sort_orders(work, t, S) == DescendingOrders(work, t, S)

\* a plausible slip: the table is not cut
head_all(order) == order

\* .head(10)
head(order) == IF Len(order) <= TopN THEN order ELSE SubSeq(order, 1, TopN)

\* (share * 100).round(2), in hundredths of a percent, halves to even
round_percent(share) ==
    LET num == share.n * 10000
        q == num \div share.d
        rem == num - q * share.d
    IN  IF 2 * rem < share.d THEN q
        ELSE IF 2 * rem > share.d THEN q + 1
        ELSE IF q % 2 = 0 THEN q ELSE q + 1

\* the rows of `ranked` for one ordering of the index labels
ranked_rows(work, t, order) ==
    [i \in 1..Len(order) |->
        [idx |-> order[i],
         country |-> Cell(work, order[i], COUNTRY_KEY),
         share |-> Cell(work, order[i], t),
         percent |-> round_percent(Cell(work, order[i], t))]]

\* ranked.to_csv(index=False): the index labels are not written
to_csv(rows) ==
    [i \in 1..Len(rows) |->
        <<rows[i].country, rows[i].share, rows[i].percent>>]

----------------------------------------------------------------------------
(* Inputs: the tables the default file or the upload may hold *)

MaxRows == 2
MaxLongRows == 11
MaxMissing == 2

C_Country == <<"C","o","u","n","t","r","y">>
C_COUNTRY == <<"C","O","U","N","T","R","Y">>
C_MyCountry == <<"M","y"," ","c","o","u","n","t","r","y">>
C_Nation == <<"N","a","t","i","o","n">>
C_NationPadded == <<" ","N","a","t","i","o","n"," ">>
C_Region == <<"R","e","g","i","o","n">>
C_ID == <<"I","D">>
C_Name == <<"N","a","m","e">>
C_Score == <<"S","c","o","r","e">>
C_JiyeokMyeong == <<"U+C9C0", "U+C5ED", "U+BA85">>
C_UriNara == <<"U+C6B0", "U+B9AC", "U+B098", "U+B77C">>
C_INFP == <<"I","N","F","P">>
C_INTJ == <<"I","N","T","J">>
C_ENFP == <<"E","N","F","P">>
C_ESFP == <<"E","S","F","P">>
C_infp == <<"i","n","f","p">>
C_Intj == <<"I","n","t","j">>
C_INFP_padded == <<" ","I","N","F","P">>

HeaderLayouts ==
    { <<C_Country, C_INFP, C_INTJ>>,
      <<C_ID, C_Nation, C_INFP>>,
      <<C_Name, C_INFP>>,
      <<C_INFP, C_INTJ>>,
      <<C_Region, C_Country, C_ENFP>>,
      <<C_NationPadded, C_INFP_padded>>,
      <<C_Country, C_INFP_padded, C_INTJ>>,
      <<C_Country, C_infp, C_Intj>>,
      <<C_COUNTRY, C_INFP, C_infp>>,
      <<C_MyCountry, C_ESFP, C_INTJ>>,
      <<KO_GUKGA, C_INFP>>,
      <<C_ID, C_UriNara, C_INFP>>,
      <<C_ID, KO_JIYEOK, C_INTJ>>,
      <<C_JiyeokMyeong, C_Score, C_INFP>>,
      <<C_Name, C_Score>> }

Half == Num(1, 2)

WideValues ==
    {NaN, Text, Num(0, 1), Half, Num(1, 1), Num(3, 2), Num(95, 1), Num(100, 1), Num(105, 1)}
NarrowValues == {NaN, Num(0, 1), Half}

SeqsUpTo(S, n) == UNION {[1..m -> S] : m \in 0..n}

IsTypeHeader(c) == Upper(Strip(c)) \in Range(MBTI_TYPES)

\* tables that vary the header: no row, or one row with 0.5 under every
\* MBTI-like header and text under the others
HeaderTables ==
    {[columns |-> L,
      rows |-> [r \in 1..m |-> [j \in 1..Len(L) |-> IF IsTypeHeader(L[j]) THEN Half ELSE Text]]] :
        L \in HeaderLayouts, m \in 0..1}

\* Country,INFP with up to MaxRows rows of any value
ValueTables ==
    {[columns |-> <<C_Country, C_INFP>>,
      rows |-> [r \in 1..Len(vs) |-> <<Text, vs[r]>>]] : vs \in SeqsUpTo(WideValues, MaxRows)}

\* Country,INFP,INTJ with up to MaxRows rows
PairTables ==
    {[columns |-> <<C_Country, C_INFP, C_INTJ>>,
      rows |-> [r \in 1..Len(vs) |-> <<Text, vs[r][1], vs[r][2]>>]] :
        vs \in SeqsUpTo(NarrowValues \X NarrowValues, MaxRows)}

\* Country,INFP,INTJ with more rows than the ranking keeps: counts out of 50,
\* rows 1,2 and rows 5,6 tied, and at most MaxMissing INFP cells missing
LongCount(r) == IF r \in {2, 6} THEN r - 1 ELSE r

LongTables ==
    {[columns |-> <<C_Country, C_INFP, C_INTJ>>,
      rows |-> [r \in 1..m |->
                  <<Text,
                    IF r \in M THEN NaN ELSE Num(LongCount(r), 1),
                    Num(50 - LongCount(r), 1)>>]] :
        m \in TopN..MaxLongRows,
        M \in {X \in SUBSET (1..MaxLongRows) : Cardinality(X) <= MaxMissing}}

Tables == HeaderTables \cup ValueTables \cup PairTables \cup LongTables

\* the default file: absent, present but rejected by pd.read_csv, or a table
DefFiles ==
    {[exists |-> FALSE, table |-> None], [exists |-> TRUE, table |-> None]}
        \cup {[exists |-> TRUE, table |-> Some(t)] : t \in Tables}

\* a plausible slip: two entries of the fallback list are swapped
ENCODINGS_swapped == <<"utf-8", "euc-kr", "cp932", "latin1">>

ENCODINGS == <<"utf-8", "cp932", "euc-kr", "latin1">>

\* an upload: the table its author saved, and for each encoding whether
\* decoding and parsing the bytes fails, yields that table, or yields the
\* table with its non-ASCII header characters misread
UploadTables ==
    {[columns |-> <<KO_GUKGA, C_INFP>>, rows |-> << <<Text, Half>> >>],
     [columns |-> <<C_Country, C_INFP>>, rows |-> << <<Text, Half>>, <<Text, Num(3, 2)>> >>],
     [columns |-> <<C_Name, C_Score>>, rows |-> << <<Text, Num(1, 1)>> >>]}

Uploads ==
    {[content |-> t, decodes |-> o] :
        t \in UploadTables, o \in [Range(ENCODINGS) -> {"fail", "exact", "garbled"}]}

Hangul == Range(KO_GUKGA) \cup Range(KO_NARA) \cup Range(KO_JIYEOK)

Mojibake(enc) ==
    CASE enc = "utf-8" -> "U+FFFD"
      [] enc = "cp932" -> "U+FF71"
      [] enc = "euc-kr" -> "U+D7A3"
      [] OTHER -> "U+00B1"

Garble(t, enc) ==
    [t EXCEPT !.columns =
        [j \in 1..Len(t.columns) |->
            [i \in 1..Len(t.columns[j]) |->
                IF t.columns[j][i] \in Hangul THEN Mojibake(enc) ELSE t.columns[j][i]]]]

\* pd.read_csv(StringIO(raw_bytes.decode(enc))): None stands for an exception
read_csv_bytes(raw_bytes, enc) ==
    CASE raw_bytes.decodes[enc] = "fail" -> None
      [] raw_bytes.decodes[enc] = "exact" -> Some(raw_bytes.content)
      [] OTHER -> Some(Garble(raw_bytes.content, enc))

----------------------------------------------------------------------------
(* The script *)

Init ==
    /\ pc = "start"
    /\ def_file \in DefFiles
    /\ upload \in (IF def_file.exists THEN {None} ELSE {None} \cup {Some(u) : u \in Uploads})
    /\ enc_i = 1
    /\ tried = <<>>
    /\ df = None
    /\ country_col = None
    /\ mbti_cols = <<>>
    /\ num_df = None
    /\ row_sums = <<>>
    /\ mean_sum = NaN
    /\ value_type = "unset"
    /\ work_df = None
    /\ sel_type = None
    /\ ranked = None
    /\ csv = None
    /\ error = "none"

\* lines 61-64: the default file exists and is read; a failure of pd.read_csv
\* is not caught and ends the run
LoadDefault ==
    /\ pc = "start"
    /\ def_file.exists
    /\ df' = def_file.table
    /\ pc' = IF def_file.table = None THEN "stopped" ELSE "loaded"
    /\ error' = IF def_file.table = None THEN "ReadError" ELSE error
    /\ UNCHANGED <<def_file, upload, enc_i, tried, country_col, mbti_cols, num_df,
                   row_sums, mean_sum, value_type, work_df, sel_type, ranked, csv>>

\* lines 65-70: no default file; without an upload the script warns and stops
AwaitUpload ==
    /\ pc = "start"
    /\ ~def_file.exists
    /\ pc' = IF upload = None THEN "stopped" ELSE "decode"
    /\ error' = IF upload = None THEN "NoInputError" ELSE error
    /\ UNCHANGED <<def_file, upload, enc_i, tried, df, country_col, mbti_cols, num_df,
                   row_sums, mean_sum, value_type, work_df, sel_type, ranked, csv>>

\* lines 71-79: one pass of the encoding loop; a success breaks out of it, a
\* failure sets df = None, and after the last failure the script stops
TryEncoding ==
    /\ pc = "decode"
    /\ enc_i <= Len(ENCODINGS)
    /\ LET enc == ENCODINGS[enc_i]
           got == read_csv_bytes(Get(upload), enc)
       IN  /\ tried' = Append(tried, enc)
           /\ df' = got
           /\ enc_i' = enc_i + 1
           /\ pc' = IF got # None THEN "loaded"
                    ELSE IF enc_i = Len(ENCODINGS) THEN "stopped" ELSE "decode"
           /\ error' = IF got = None /\ enc_i = Len(ENCODINGS) THEN "DataLoadError" ELSE error
    /\ UNCHANGED <<def_file, upload, country_col, mbti_cols, num_df,
                   row_sums, mean_sum, value_type, work_df, sel_type, ranked, csv>>

\* a plausible slip: the error is reported but st.stop() is missing
DetectSchema_no_stop ==
    /\ pc = "loaded"
    /\ country_col' = detect_country_col(Get(df).columns)
    /\ mbti_cols' = pick_mbti_cols(Get(df).columns)
    /\ pc' = "schema"
    /\ error' = IF Len(pick_mbti_cols(Get(df).columns)) = 0 THEN "SchemaError" ELSE error
    /\ UNCHANGED <<def_file, upload, enc_i, tried, df, num_df,
                   row_sums, mean_sum, value_type, work_df, sel_type, ranked, csv>>

\* lines 84-88
DetectSchema ==
    /\ pc = "loaded"
    /\ country_col' = detect_country_col(Get(df).columns)
    /\ mbti_cols' = pick_mbti_cols(Get(df).columns)
    /\ pc' = IF Len(pick_mbti_cols(Get(df).columns)) = 0 THEN "stopped" ELSE "schema"
    /\ error' = IF Len(pick_mbti_cols(Get(df).columns)) = 0 THEN "SchemaError" ELSE error
    /\ UNCHANGED <<def_file, upload, enc_i, tried, df, num_df,
                   row_sums, mean_sum, value_type, work_df, sel_type, ranked, csv>>

\* a plausible slip: the thresholds are taken inclusively
classify_inclusive(m) ==
    IF ~LessNA(Num(5, 100), AbsNA(SubNA(m, Num(1, 1)))) /\ IsNum(m) THEN "proportion"
    ELSE IF ~LessNA(Num(5, 1), AbsNA(SubNA(m, Num(100, 1)))) /\ IsNum(m) THEN "percent"
    ELSE "count"

\* lines 94-102: the value type for a mean row sum
classify(m) ==
    IF LessNA(AbsNA(SubNA(m, Num(1, 1))), Num(5, 100)) THEN "proportion"
    ELSE IF LessNA(AbsNA(SubNA(m, Num(100, 1))), Num(5, 1)) THEN "percent"
    ELSE "count"

\* lines 96, 99-100, 103: the normalised frame for a value type
normalise(vt, frame, cols) ==
    IF vt = "proportion" THEN frame
    ELSE IF vt = "percent" THEN div_100(frame, cols)
    ELSE infer_to_proportion(frame, cols)

\* lines 90-103
Normalize ==
    /\ pc = "schema"
    /\ LET num == to_numeric(Get(df), {country_col})
           sums == RowSums(num, mbti_cols)
           m == Mean(sums)
       IN  /\ num_df' = Some(num)
           /\ row_sums' = sums
           /\ mean_sum' = m
           /\ value_type' = classify(m)
           /\ work_df' = Some(normalise(classify(m), num, mbti_cols))
    /\ pc' = "normalized"
    /\ UNCHANGED <<def_file, upload, enc_i, tried, df, country_col, mbti_cols,
                   sel_type, ranked, csv, error>>

\* lines 105-107: the selectbox lists all of MBTI_TYPES
SelectType ==
    /\ pc = "normalized"
    /\ \E t \in Range(MBTI_TYPES) : sel_type' = t
    /\ pc' = "selected"
    /\ UNCHANGED <<def_file, upload, enc_i, tried, df, country_col, mbti_cols, num_df,
                   row_sums, mean_sum, value_type, work_df, ranked, csv, error>>

\* lines 108-111: indexing a column the frame does not have raises KeyError
Rank ==
    /\ pc = "selected"
    /\ LET work == with_country(Get(work_df), Get(df), country_col)
       IN  /\ work_df' = Some(work)
           /\ IF HasCol(work, sel_type)
              THEN /\ \E order \in sort_orders(work, sel_type, dropna(work, sel_type)) :
                        ranked' = Some(ranked_rows(work, sel_type, head(order)))
                   /\ pc' = "ranked"
                   /\ error' = error
              ELSE /\ ranked' = ranked
                   /\ pc' = "stopped"
                   /\ error' = "KeyError"
    /\ UNCHANGED <<def_file, upload, enc_i, tried, df, country_col, mbti_cols, num_df,
                   row_sums, mean_sum, value_type, sel_type, csv>>

\* lines 113-143: chart, table, download button, diagnostics
Present ==
    /\ pc = "ranked"
    /\ csv' = Some(to_csv(Get(ranked)))
    /\ pc' = "done"
    /\ UNCHANGED <<def_file, upload, enc_i, tried, df, country_col, mbti_cols, num_df,
                   row_sums, mean_sum, value_type, work_df, sel_type, ranked, error>>

Next ==
    \/ LoadDefault
    \/ AwaitUpload
    \/ TryEncoding
    \/ DetectSchema
    \/ Normalize
    \/ SelectType
    \/ Rank
    \/ Present

Spec == Init /\ [][Next]_vars

----------------------------------------------------------------------------
(* Properties *)

Min(a, b) == IF a <= b THEN a ELSE b
Normalized == work_df # None
TypeCols == Range(mbti_cols)

\* C1: after normalisation, in each of the three branches, every cell of a
\* detected MBTI column of work_df is missing or a value v with 0 <= v <= 1.
C1_NormalizedInUnitInterval ==
    Normalized =>
        \A r \in 1..NRows(Get(work_df)) : \A c \in TypeCols :
            LET v == Cell(Get(work_df), r, c)
            IN  IsNA(v) \/ (IsNum(v) /\ 0 <= v.n /\ v.n <= v.d)

\* the cells of work_df are those of num_df rescaled as the value type vt says
RescaledAs(vt) ==
    \A r \in 1..NRows(Get(num_df)) : \A c \in TypeCols :
        LET x == Cell(Get(num_df), r, c)
            w == Cell(Get(work_df), r, c)
            s == row_sums[r]
        IN  CASE vt = "proportion" -> w = x
              [] vt = "percent" ->
                    IF IsNum(x) THEN IsNum(w) /\ w.n * x.d * 100 = x.n * w.d ELSE IsNA(w)
              [] OTHER ->
                    IF IsNum(x) /\ s.n # 0
                    THEN IsNum(w) /\ w.n * s.n * x.d = x.n * s.d * w.d
                    ELSE IsNA(w)

\* C2 as stated: the value type is decided by the mean row sum m with the
\* bounds included: 0.95 <= m <= 1.05 gives proportion, else 95 <= m <= 105
\* gives percent, else count; and the values are rescaled accordingly.
C2_InclusiveThresholds ==
    Normalized =>
        LET m == mean_sum
            vt == IF IsNum(m) /\ 19 * m.d <= 20 * m.n /\ 20 * m.n <= 21 * m.d THEN "proportion"
                  ELSE IF IsNum(m) /\ 95 * m.d <= m.n /\ m.n <= 105 * m.d THEN "percent"
                  ELSE "count"
        IN  value_type = vt /\ RescaledAs(vt)

\* C2 amended: the same with the bounds excluded: 0.95 < m < 1.05 gives
\* proportion (values as they are), else 95 < m < 105 gives percent (values
\* divided by 100), else, also for a missing m, count (each row divided by
\* its own sum).
C2_StrictThresholds ==
    Normalized =>
        LET m == mean_sum
            vt == IF IsNum(m) /\ 19 * m.d < 20 * m.n /\ 20 * m.n < 21 * m.d THEN "proportion"
                  ELSE IF IsNum(m) /\ 95 * m.d < m.n /\ m.n < 105 * m.d THEN "percent"
                  ELSE "count"
        IN  value_type = vt /\ RescaledAs(vt)

C2_Witness ==
    /\ pc = "normalized"
    /\ mean_sum = Num(95, 1)
    /\ value_type = "count"
    /\ \E r \in 1..NRows(Get(work_df)) : Cell(Get(work_df), r, C_INFP) = Num(1, 1)

\* the index labels of work_df whose share for the selected type is not missing
ValidRows == {r \in 1..NRows(Get(work_df)) : ~IsNA(Cell(Get(work_df), r, sel_type))}

\* C3: a ranking that is produced has min(10, number of rows whose share for
\* the selected type is not missing) rows.
C3_RankingLength ==
    ranked # None => Len(Get(ranked)) = Min(10, Cardinality(ValidRows))

C3_Witness ==
    /\ ranked # None
    /\ Cardinality(ValidRows) > 10
    /\ Len(Get(ranked)) = 10

UploadRun == ~def_file.exists /\ upload # None

C5_Order == <<"utf-8", "cp932", "euc-kr", "latin1">>

\* C5: with no default file and an upload, the encodings are tried in the
\* order utf-8, cp932, euc-kr, latin1; the dataset is the one the first
\* succeeding encoding yields, nothing is tried after it, and when all four
\* fail the run ends in the data-load error.
C5_FirstEncodingWins ==
    UploadRun =>
        LET ok == {i \in 1..4 : read_csv_bytes(Get(upload), C5_Order[i]) # None}
        IN  /\ pc = "start" => tried = <<>>
            /\ pc = "decode" =>
                  /\ Len(tried) < 4
                  /\ tried = SubSeq(C5_Order, 1, Len(tried))
                  /\ \A i \in 1..Len(tried) : i \notin ok
                  /\ error = "none"
            /\ pc \notin {"start", "decode"} =>
                  IF ok = {}
                  THEN tried = C5_Order /\ df = None /\ pc = "stopped" /\ error = "DataLoadError"
                  ELSE LET first == CHOOSE i \in ok : \A j \in ok : i <= j
                       IN  /\ tried = SubSeq(C5_Order, 1, first)
                           /\ df = read_csv_bytes(Get(upload), C5_Order[first])
                           /\ error # "DataLoadError"

C5_Witness ==
    /\ UploadRun
    /\ pc = "loaded"
    /\ tried = <<"utf-8", "cp932", "euc-kr">>
    /\ df = Some(Get(upload).content)
    /\ read_csv_bytes(Get(upload), "latin1") \notin {None, df}

\* the step the script takes next at its position is possible
CanStep ==
    CASE pc = "start" -> TRUE
      [] pc = "decode" -> upload # None /\ enc_i <= Len(ENCODINGS)
      [] pc = "loaded" -> df # None /\ Len(Get(df).columns) > 0
      [] pc = "schema" -> df # None /\ country_col # None /\ mbti_cols # <<>>
      [] pc = "normalized" -> work_df # None
      [] pc = "selected" -> work_df # None /\ sel_type \in Range(MBTI_TYPES)
      [] pc = "ranked" -> ranked # None
      [] OTHER -> FALSE

\* C6: a run ends either in success (a ranking and its export) or in one
\* terminal error at the stage that raised it; after NoInputError,
\* DataLoadError or SchemaError there is no normalisation, no ranking and no
\* export.
C6_TerminalErrorOrSuccess ==
    /\ error \in {"NoInputError", "DataLoadError", "SchemaError"} =>
          /\ pc = "stopped"
          /\ num_df = None /\ work_df = None /\ value_type = "unset"
          /\ sel_type = None /\ ranked = None /\ csv = None
    /\ error = "NoInputError" => ~def_file.exists /\ upload = None /\ df = None
    /\ error = "DataLoadError" => df = None
    /\ error = "SchemaError" => df # None /\ mbti_cols = <<>>
    /\ pc = "stopped" => error # "none" /\ ranked = None /\ csv = None
    /\ pc = "done" => error = "none" /\ ranked # None /\ csv # None
    /\ pc \notin {"stopped", "done"} => error = "none" /\ csv = None /\ CanStep

C6_Witness ==
    /\ pc = "stopped"
    /\ error = "SchemaError"
    /\ df # None
    /\ NRows(Get(df)) > 0

\* C7: whenever the ranking step runs, the selected type is a column the
\* schema detector found, so the step never fails on an absent type.
C7_SelectedTypeDetected ==
    /\ error # "KeyError"
    /\ pc \in {"ranked", "done"} => sel_type \in TypeCols

TypeIndex(t) == CHOOSE k \in 1..Len(MBTI_TYPES) : MBTI_TYPES[k] = t

\* C8: pick_mbti_cols returns exactly the columns whose trimmed, uppercased
\* name is one of the 16 codes, one per matched code, in the order of the
\* codes.
C8_PickTrimmedUpper ==
    country_col # None =>
        LET cols == Get(df).columns
            code(c) == Upper(Strip(c))
        IN  /\ \A c \in TypeCols : c \in Range(cols) /\ code(c) \in Range(MBTI_TYPES)
            /\ \A c \in Range(cols) :
                  code(c) \in Range(MBTI_TYPES) => \E x \in TypeCols : code(x) = code(c)
            /\ \A a, b \in 1..Len(mbti_cols) :
                  a < b => TypeIndex(code(mbti_cols[a])) < TypeIndex(code(mbti_cols[b]))

\* the column test as the specification words it
CountryVocabulary ==
    { <<"c","o","u","n","t","r","y">>, <<"n","a","t","i","o","n">>,
      <<"l","o","c","a","t","i","o","n">>, <<"r","e","g","i","o","n">>,
      <<"U+AD6D", "U+AC00">>, <<"U+B098", "U+B77C">>, <<"U+C9C0", "U+C5ED">> }

NamesCountry(c) ==
    \/ Lower(Strip(c)) \in CountryVocabulary
    \/ Contains(Lower(c), <<"c","o","u","n","t","r","y">>)
    \/ Contains(c, <<"U+AD6D", "U+AC00">>)
    \/ Contains(c, <<"U+B098", "U+B77C">>)

\* C9: detect_country_col returns the first column, in column order, whose
\* trimmed lowercased name is in the vocabulary or whose name contains
\* "country" (any case) or one of the two localized substrings, and the
\* first column of the dataset when no column matches.
C9_CountryColumn ==
    country_col # None =>
        LET cols == Get(df).columns
            hits == {i \in 1..Len(cols) : NamesCountry(cols[i])}
        IN  /\ \A i \in hits : \E j \in hits : j <= i /\ country_col = cols[j]
                                 /\ \A h \in hits : j <= h
            /\ hits = {} => country_col = cols[1]

C9_Witness ==
    /\ country_col = C_Nation
    /\ Get(df).columns[1] # C_Nation
    /\ ~NamesCountry(Get(df).columns[1])

\* the non-missing cells of the MBTI columns in the rows rs of num_df
TypeCells(rs) ==
    {<<r, c>> \in rs \X TypeCols : IsNum(Cell(Get(num_df), r, c))}

RECURSIVE Total(_)
Total(P) ==
    IF P = {} THEN Num(0, 1)
    ELSE LET p == CHOOSE q \in P : TRUE
         IN  Add(Cell(Get(num_df), p[1], p[2]), Total(P \ {p}))

\* m is total / count
IsQuotient(m, total, count) ==
    IsNum(m) /\ m.n * count * total.d = total.n * m.d

\* C10 as stated: a row's sum counts missing cells as zero, and the mean is
\* taken over the rows with at least one non-missing MBTI cell only; an
\* all-missing row adds nothing to the numerator or to the row count.
C10_MeanSkipsAllMissingRows ==
    num_df # None =>
        LET live == {r \in 1..NRows(Get(num_df)) : TypeCells({r}) # {}}
        IN  /\ \A r \in live : row_sums[r] = Total(TypeCells({r}))
            /\ IF live = {} THEN IsNA(mean_sum)
               ELSE IsQuotient(mean_sum, Total(TypeCells(live)), Cardinality(live))

\* C10 amended: a row's sum counts missing cells as zero, so an all-missing
\* row has the sum 0, and the mean is taken over all rows: an all-missing
\* row adds 0 to the numerator and 1 to the row count; the mean is missing
\* only when there is no row.
C10_MeanOverAllRows ==
    num_df # None =>
        LET all == 1..NRows(Get(num_df))
        IN  /\ \A r \in all : row_sums[r] = Total(TypeCells({r}))
            /\ IF all = {} THEN IsNA(mean_sum)
               ELSE IsQuotient(mean_sum, Total(TypeCells(all)), Cardinality(all))

C10_Witness ==
    /\ num_df # None
    /\ \E r \in 1..NRows(Get(num_df)) : TypeCells({r}) = {}
    /\ \E r \in 1..NRows(Get(num_df)) :
          /\ TypeCells({r}) # {}
          /\ \E c \in TypeCols : IsNA(Cell(Get(num_df), r, c))
    /\ LessNA(Num(0, 1), mean_sum)

====
